---- MODULE Spec2Model ----
(***************************************************************************)
(* A model of hyperion's PriorityMuxer (libsrc/hyperion/PriorityMuxer.cpp): *)
(* the table of registered inputs, the selection of the visible priority,  *)
(* the expiry sweep, the rate-limited time trigger and the Qt signals the  *)
(* muxer emits.  Time is the millisecond clock of QDateTime, advanced in   *)
(* steps of one update-timer period.                                       *)
(*                                                                         *)
(* An InputInfo keeps the fields the control flow reads (timeoutTime_ms,   *)
(* componentId); the payload (ledColors, image) and the labels (origin,    *)
(* owner, smooth_cfg) are left out.  Signals are delivered on the muxer's  *)
(* own thread, so a connected slot runs inside the emit.  The update timer *)
(* runs from construction on; setEnable stops and restarts it.            *)
(***************************************************************************)
EXTENDS Integers, Sequences, FiniteSets, TLC

\* ------------------------------------------------------------- bounds
\* the clock advances at most MaxTicks update periods
MaxTicks == 1
\* the number of calls of the public interface in one run
MaxCalls == 3

\* ------------------------------------------------- program constants
LOWEST_PRIORITY == 255
\* _manualSelectedPriority after construction
NoManualPriority == 256
\* timeoutTime_ms of a registered input that awaits data
INACTIVE == -100
\* timeoutTime_ms of _lowestPriorityInfo
ENDLESS == -1
\* _updateTimer->setInterval(250)
UpdateInterval == 250
\* _timer->start(500)
TimerInterval == 500
\* _blockTimer->start(1000)
BlockInterval == 1000
\* clearAll keeps keys >= LOWEST_PRIORITY-1, the trigger ignores priorities >= 254
TriggerLimit == 254
\* QDateTime::currentMSecsSinceEpoch() at construction (any positive value)
StartTime == 1000

\* the priorities the producers of the model use
Priorities == {0, 1, 254, LOWEST_PRIORITY}
\* hyperion::Components the model distinguishes
Components == {"COMP_COLOR", "COMP_GRABBER"}
\* the timeout_ms arguments producers pass to setInput / setInputImage: the
\* two sentinels, zero and one relative timeout (one update period)
Timeouts == {INACTIVE, ENDLESS, 0, UpdateInterval}

VARIABLES
    activeInputs,             \* QMap<int, InputInfo> _activeInputs
    currentPriority,          \* _currentPriority
    manualSelectedPriority,   \* _manualSelectedPriority
    sourceAutoSelectEnabled,  \* _sourceAutoSelectEnabled
    blockTimer,               \* remaining ms of _blockTimer, 0 = not active
    timer,                    \* remaining ms of _timer, 0 = not active
    now,                      \* QDateTime::currentMSecsSinceEpoch()
    events,                   \* the signals emitted by the last step, in order
    views,                    \* per signal of events, the members at the instant of
                              \* the emit, as a connected slot finds them
    runnerTimes,              \* the clock values of the last two timeRunner emissions
    op,                       \* the last step: the call, its arguments and result
    calls,                    \* the number of public calls made so far
    updateTimerActive,        \* _updateTimer->isActive()
    activeHistory             \* per priority, what a listener of activeStateChanged
                              \* saw last, and whether the record was removed since

vars == <<activeInputs, currentPriority, manualSelectedPriority,
          sourceAutoSelectEnabled, blockTimer, timer, now, events, views,
          runnerTimes, op, calls, updateTimerActive, activeHistory>>

\* ------------------------------------------------------------ helpers
Min(S) == CHOOSE x \in S : \A y \in S : x <= y

qMin(a, b) == IF a < b THEN a ELSE b

\* an InputInfo: the fields the muxer's control flow reads
InputInfo(t, c) == [timeoutTime_ms |-> t, componentId |-> c]

\* _lowestPriorityInfo as the constructor fills it
lowestPriorityInfo == InputInfo(ENDLESS, "COMP_COLOR")

\* QMap::remove / erase of one key
MapRemove(f, k) == [x \in (DOMAIN f) \ {k} |-> f[x]]

\* QMap::operator[] assignment
MapPut(f, k, v) == [x \in (DOMAIN f) \cup {k} |-> IF x = k THEN v ELSE f[x]]

\* a signal emission; prio and val are -1 / FALSE for signals without them
Ev(sig, p, v) == [sig |-> sig, prio |-> p, val |-> v]

EvPrioritiesChanged == Ev("prioritiesChanged", -1, FALSE)

\* the muxer's members as one record, so that nested calls compose
Self ==
    [inputs |-> activeInputs, cur |-> currentPriority,
     man |-> manualSelectedPriority, auto |-> sourceAutoSelectEnabled,
     block |-> blockTimer, timer |-> timer, ev |-> <<>>, seen |-> <<>>,
     ret |-> TRUE]

Emit(m, e) ==
    [m EXCEPT !.ev = Append(@, e),
              !.seen = Append(@, [inputs |-> m.inputs, cur |-> m.cur,
                                  man |-> m.man, auto |-> m.auto,
                                  block |-> m.block])]

\* emit prioritiesChanged()
EmitPrioritiesChanged(m) == Emit(m, EvPrioritiesChanged)

\* emit activeStateChanged(p, a): the constructor forwards it to prioritiesChanged
EmitActiveStateChanged(m, p, a) ==
    EmitPrioritiesChanged(Emit(m, Ev("activeStateChanged", p, a)))

\* emit timeRunner(): the constructor forwards it to prioritiesChanged
EmitTimeRunner(m) ==
    EmitPrioritiesChanged(Emit(m, Ev("timeRunner", -1, FALSE)))

\* timeTrigger that drops a request made while _blockTimer is active
timeTriggerDrops(m) ==
    IF m.block > 0
    THEN m
    ELSE [EmitTimeRunner(m) EXCEPT !.block = BlockInterval]

\* timeTrigger without the test of _blockTimer
timeTriggerUnblocked(m) == [EmitTimeRunner(m) EXCEPT !.block = BlockInterval]

\* PriorityMuxer::timeTrigger
timeTrigger(m) ==
    IF m.block > 0
    THEN [m EXCEPT !.timer = TimerInterval]
    ELSE [EmitTimeRunner(m) EXCEPT !.block = BlockInterval]

\* emit signalTimeTrigger(): connected to timeTrigger on the muxer's own thread
EmitSignalTimeTrigger(m) == timeTrigger(Emit(m, Ev("signalTimeTrigger", -1, FALSE)))

\* PriorityMuxer::getInputInfo
getInputInfo(m, p) ==
    IF p \in DOMAIN m.inputs THEN m.inputs[p]
    ELSE IF LOWEST_PRIORITY \in DOMAIN m.inputs THEN m.inputs[LOWEST_PRIORITY]
    ELSE lowestPriorityInfo

\* PriorityMuxer::hasPriority
hasPriority(m, p) == IF p = LOWEST_PRIORITY THEN TRUE ELSE p \in DOMAIN m.inputs

\* ------------------------------------------------------- the muxer
RECURSIVE setCurrentTime(_, _), setSourceAutoSelectEnabled(_, _, _, _)

\* SweepRecord with the expiry test widened to timeoutTime_ms >= 0
SweepRecordZeroExpires(r, p, t) ==
    LET info == r.m.inputs[p] IN
    IF info.timeoutTime_ms >= 0 /\ info.timeoutTime_ms <= t
    THEN [r EXCEPT !.m = EmitPrioritiesChanged(
                            Emit([r.m EXCEPT !.inputs = MapRemove(@, p)],
                                 Ev("priorityChanged", p, FALSE)))]
    ELSE LET np == IF info.timeoutTime_ms > INACTIVE
                   THEN qMin(r.newPriority, p) ELSE r.newPriority
             trig == p < TriggerLimit /\ info.timeoutTime_ms > 0
                     /\ info.componentId \in {"COMP_EFFECT", "COMP_COLOR"}
         IN [m |-> IF trig THEN EmitSignalTimeTrigger(r.m) ELSE r.m,
             newPriority |-> np]

\* SweepRecord with the expiry test narrowed to timeoutTime_ms < now: a record
\* whose deadline is the snapshot itself stays
SweepRecordLate(r, p, t) ==
    LET info == r.m.inputs[p] IN
    IF info.timeoutTime_ms > 0 /\ info.timeoutTime_ms < t
    THEN [r EXCEPT !.m = EmitPrioritiesChanged(
                            Emit([r.m EXCEPT !.inputs = MapRemove(@, p)],
                                 Ev("priorityChanged", p, FALSE)))]
    ELSE LET np == IF info.timeoutTime_ms > INACTIVE
                   THEN qMin(r.newPriority, p) ELSE r.newPriority
             trig == p < TriggerLimit /\ info.timeoutTime_ms > 0
                     /\ info.componentId \in {"COMP_EFFECT", "COMP_COLOR"}
         IN [m |-> IF trig THEN EmitSignalTimeTrigger(r.m) ELSE r.m,
             newPriority |-> np]

\* the body of setCurrentTime's loop for the record at key p; r carries the
\* muxer and the local newPriority
SweepRecord(r, p, t) ==
    LET info == r.m.inputs[p] IN
    IF info.timeoutTime_ms > 0 /\ info.timeoutTime_ms <= t
    THEN [r EXCEPT !.m = EmitPrioritiesChanged(
                            Emit([r.m EXCEPT !.inputs = MapRemove(@, p)],
                                 Ev("priorityChanged", p, FALSE)))]
    ELSE LET np == IF info.timeoutTime_ms > INACTIVE
                   THEN qMin(r.newPriority, p) ELSE r.newPriority
             trig == p < TriggerLimit /\ info.timeoutTime_ms > 0
                     /\ info.componentId \in {"COMP_EFFECT", "COMP_COLOR"}
         IN [m |-> IF trig THEN EmitSignalTimeTrigger(r.m) ELSE r.m,
             newPriority |-> np]

\* setCurrentTime's loop over _activeInputs, in ascending key order
RECURSIVE SweepLoop(_, _, _)
SweepLoop(r, keys, t) ==
    IF keys = {} THEN r
    ELSE LET p == Min(keys) IN SweepLoop(SweepRecord(r, p, t), keys \ {p}, t)

\* PriorityMuxer::setCurrentTime, at clock value t
setCurrentTime(m, t) ==
    LET np0 == IF 0 \in DOMAIN m.inputs THEN 0 ELSE LOWEST_PRIORITY
        r == SweepLoop([m |-> m, newPriority |-> np0], DOMAIN m.inputs, t)
        pinned == ~r.m.auto /\ r.m.man \in DOMAIN r.m.inputs
        m1 == IF r.m.auto \/ pinned THEN r.m
              ELSE setSourceAutoSelectEnabled(r.m, TRUE, FALSE, t)
        newPriority == IF pinned THEN r.m.man ELSE r.newPriority
        changed == m1.cur # newPriority
        m2 == [m1 EXCEPT !.cur = newPriority]
    IN IF changed
       THEN EmitPrioritiesChanged(Emit(m2, Ev("visiblePriorityChanged", newPriority, FALSE)))
       ELSE m2

\* PriorityMuxer::setSourceAutoSelectEnabled
setSourceAutoSelectEnabled(m, enable, update, t) ==
    IF m.auto # enable
    THEN IF ~enable /\ m.man \notin DOMAIN m.inputs
         THEN [m EXCEPT !.ret = FALSE]
         ELSE LET m1 == [m EXCEPT !.auto = enable]
                  m2 == IF update THEN setCurrentTime(m1, t) ELSE m1
              IN [Emit(m2, Ev("autoSelectChanged", -1, enable)) EXCEPT !.ret = TRUE]
    ELSE [m EXCEPT !.ret = FALSE]

\* setPriority with the pin stored before the table is asked for the priority
setPriorityPinsFirst(m, p, t) ==
    IF p \in DOMAIN m.inputs
    THEN [setSourceAutoSelectEnabled([m EXCEPT !.man = p], FALSE, TRUE, t)
            EXCEPT !.ret = TRUE]
    ELSE [m EXCEPT !.man = p, !.ret = FALSE]

\* PriorityMuxer::setPriority
setPriority(m, p, t) ==
    IF p \in DOMAIN m.inputs
    THEN [setSourceAutoSelectEnabled([m EXCEPT !.man = p], FALSE, TRUE, t)
            EXCEPT !.ret = TRUE]
    ELSE [m EXCEPT !.ret = FALSE]

\* registerInput with the timeout reset to -100 on every call
registerInputResets(m, p, c) ==
    LET newInput == p \notin DOMAIN m.inputs
        m1 == [m EXCEPT !.inputs = MapPut(@, p, InputInfo(INACTIVE, c))]
    IN IF newInput
       THEN EmitPrioritiesChanged(Emit(m1, Ev("priorityChanged", p, TRUE)))
       ELSE m1

\* PriorityMuxer::registerInput
registerInput(m, p, c) ==
    LET newInput == p \notin DOMAIN m.inputs
        t == IF newInput THEN INACTIVE ELSE m.inputs[p].timeoutTime_ms
        m1 == [m EXCEPT !.inputs = MapPut(@, p, InputInfo(t, c))]
    IN IF newInput
       THEN EmitPrioritiesChanged(Emit(m1, Ev("priorityChanged", p, TRUE)))
       ELSE m1

\* setInput with the edge detection dropped: every call that feeds data
\* reports the input as active, whatever the stored timeout was
setInputEmitsAlways(m, p, timeout_ms, t) ==
    IF p \notin DOMAIN m.inputs THEN [m EXCEPT !.ret = FALSE]
    ELSE LET final == IF timeout_ms > 0 THEN t + timeout_ms ELSE timeout_ms
             m1 == [m EXCEPT !.inputs[p].timeoutTime_ms = final, !.ret = TRUE]
         IN setCurrentTime(EmitActiveStateChanged(m1, p, final # INACTIVE), t)

\* PriorityMuxer::setInput
setInput(m, p, timeout_ms, t) ==
    IF p \notin DOMAIN m.inputs THEN [m EXCEPT !.ret = FALSE]
    ELSE LET final == IF timeout_ms > 0 THEN t + timeout_ms ELSE timeout_ms
             old == m.inputs[p].timeoutTime_ms
             activate == old = INACTIVE /\ final # INACTIVE
             deactivate == ~activate /\ final = INACTIVE /\ old # INACTIVE
             m1 == [m EXCEPT !.inputs[p].timeoutTime_ms = final, !.ret = TRUE]
         IN IF activate \/ deactivate
            THEN setCurrentTime(EmitActiveStateChanged(m1, p, activate), t)
            ELSE m1

\* PriorityMuxer::setInputImage
setInputImage(m, p, timeout_ms, t) ==
    IF p \notin DOMAIN m.inputs THEN [m EXCEPT !.ret = FALSE]
    ELSE LET final == IF timeout_ms > 0 THEN t + timeout_ms ELSE timeout_ms
             old == m.inputs[p].timeoutTime_ms
             activate == old = INACTIVE /\ final # INACTIVE
             deactivate == ~activate /\ final = INACTIVE /\ old # INACTIVE
             m1 == [m EXCEPT !.inputs[p].timeoutTime_ms = final, !.ret = TRUE]
         IN IF activate \/ deactivate
            THEN setCurrentTime(EmitActiveStateChanged(m1, p, activate), t)
            ELSE m1

\* PriorityMuxer::setInputInactive
setInputInactive(m, p, t) == setInputImage(m, p, INACTIVE, t)

\* clearInput with priorityChanged(p, false) emitted before the sweep
clearInputEmitsFirst(m, p, t) ==
    IF p < LOWEST_PRIORITY /\ p \in DOMAIN m.inputs
    THEN LET m1 == EmitPrioritiesChanged(Emit([m EXCEPT !.inputs = MapRemove(@, p)],
                                              Ev("priorityChanged", p, FALSE)))
         IN [setCurrentTime(m1, t) EXCEPT !.ret = TRUE]
    ELSE [m EXCEPT !.ret = FALSE]

\* PriorityMuxer::clearInput
clearInput(m, p, t) ==
    IF p < LOWEST_PRIORITY /\ p \in DOMAIN m.inputs
    THEN LET m1 == setCurrentTime([m EXCEPT !.inputs = MapRemove(@, p)], t)
         IN [EmitPrioritiesChanged(Emit(m1, Ev("priorityChanged", p, FALSE)))
               EXCEPT !.ret = TRUE]
    ELSE [m EXCEPT !.ret = FALSE]

\* the body of clearAll's loop for one key of the keys() snapshot
ClearKey(m, key, t) ==
    LET info == getInputInfo(m, key) IN
    IF info.componentId \in {"COMP_COLOR", "COMP_EFFECT"} /\ key < LOWEST_PRIORITY - 1
    THEN clearInput(m, key, t)
    ELSE m

\* clearAll's loop over the keys() snapshot, ascending
RECURSIVE ClearLoop(_, _, _)
ClearLoop(m, keys, t) ==
    IF keys = {} THEN m
    ELSE LET k == Min(keys) IN ClearLoop(ClearKey(m, k, t), keys \ {k}, t)

\* PriorityMuxer::clearAll
clearAll(m, forceClearAll, t) ==
    IF forceClearAll
    THEN [m EXCEPT !.inputs = [x \in {LOWEST_PRIORITY} |-> lowestPriorityInfo],
                   !.cur = LOWEST_PRIORITY, !.ret = TRUE]
    ELSE [ClearLoop(m, DOMAIN m.inputs, t) EXCEPT !.ret = TRUE]

\* ------------------------------------------------------------ actions
\* the last step, for the properties: prio, timeout, flag and update are -1,
\* -1, FALSE and FALSE for calls without that argument
OpUpdate(name, p, timeout_ms, flag, update, ret) ==
    [name |-> name, prio |-> p, timeout |-> timeout_ms, flag |-> flag,
     update |-> update, ret |-> ret]

Op(name, p, timeout_ms, flag, ret) == OpUpdate(name, p, timeout_ms, flag, FALSE, ret)

\* the activeStateChanged(p, .) emissions in the signal sequence ev, in order
ActiveEmissions(ev, p) ==
    SelectSeq(ev, LAMBDA e : e.sig = "activeStateChanged" /\ e.prio = p)

\* the listener's view after a step that emitted ev and removed (or replaced)
\* the records of the priorities in gone
Observe(h, ev, gone) ==
    [p \in DOMAIN h |->
        LET em == ActiveEmissions(ev, p) IN
        [last |-> IF em = <<>> THEN h[p].last
                  ELSE IF em[Len(em)].val THEN "active" ELSE "inactive",
         removed |-> IF p \in gone THEN TRUE
                     ELSE IF em # <<>> THEN FALSE ELSE h[p].removed]]

\* the clock values of the last two timeRunner emissions after a step at
\* clock value t that emitted ev
RunnerTimesAfter(times, ev, t) ==
    IF \E i \in 1..Len(ev) : ev[i].sig = "timeRunner"
    THEN IF Len(times) < 2 THEN Append(times, t) ELSE <<times[2], t>>
    ELSE times

\* the members after a step that returned the muxer record m and replaced the
\* records of the priorities in wiped
ApplyWiped(m, wiped) ==
    /\ activeInputs' = m.inputs
    /\ currentPriority' = m.cur
    /\ manualSelectedPriority' = m.man
    /\ sourceAutoSelectEnabled' = m.auto
    /\ blockTimer' = m.block
    /\ timer' = m.timer
    /\ events' = m.ev
    /\ views' = m.seen
    /\ runnerTimes' = RunnerTimesAfter(runnerTimes, m.ev, now')
    /\ updateTimerActive' = updateTimerActive
    /\ activeHistory' =
          Observe(activeHistory, m.ev, ((DOMAIN activeInputs) \ (DOMAIN m.inputs)) \cup wiped)

\* the members after a call that returned the muxer record m
Apply(m) == now' = now /\ ApplyWiped(m, {})

\* PriorityMuxer::PriorityMuxer
Init ==
    /\ activeInputs = [x \in {LOWEST_PRIORITY} |-> lowestPriorityInfo]
    /\ currentPriority = LOWEST_PRIORITY
    /\ manualSelectedPriority = NoManualPriority
    /\ sourceAutoSelectEnabled = TRUE
    /\ blockTimer = 0
    /\ timer = 0
    /\ now = StartTime
    /\ events = <<>>
    /\ views = <<>>
    /\ runnerTimes = <<>>
    /\ op = Op("PriorityMuxer", -1, -1, FALSE, TRUE)
    /\ calls = 0
    /\ updateTimerActive = TRUE
    /\ activeHistory = [p \in Priorities |-> [last |-> "none", removed |-> FALSE]]

\* a call of the public interface by a producer or a user
Call ==
    /\ calls < MaxCalls
    /\ calls' = calls + 1

RegisterInput ==
    \E p \in Priorities, c \in Components :
        LET m == registerInput(Self, p, c) IN
        /\ Call
        /\ Apply(m)
        /\ op' = Op("registerInput", p, -1, FALSE, TRUE)

SetInput ==
    \E p \in Priorities, timeout_ms \in Timeouts :
        LET m == setInput(Self, p, timeout_ms, now) IN
        /\ Call
        /\ Apply(m)
        /\ op' = Op("setInput", p, timeout_ms, FALSE, m.ret)

SetInputImage ==
    \E p \in Priorities, timeout_ms \in Timeouts :
        LET m == setInputImage(Self, p, timeout_ms, now) IN
        /\ Call
        /\ Apply(m)
        /\ op' = Op("setInputImage", p, timeout_ms, FALSE, m.ret)

SetInputInactive ==
    \E p \in Priorities :
        LET m == setInputInactive(Self, p, now) IN
        /\ Call
        /\ Apply(m)
        /\ op' = Op("setInputInactive", p, -1, FALSE, m.ret)

ClearInput ==
    \E p \in Priorities :
        LET m == clearInput(Self, p, now) IN
        /\ Call
        /\ Apply(m)
        /\ op' = Op("clearInput", p, -1, FALSE, m.ret)

ClearAll ==
    \E force \in BOOLEAN :
        LET m == clearAll(Self, force, now) IN
        /\ Call
        /\ now' = now
        /\ ApplyWiped(m, IF force THEN DOMAIN activeInputs ELSE {})
        /\ op' = Op("clearAll", -1, -1, force, TRUE)

SetPriority ==
    \E p \in Priorities :
        LET m == setPriority(Self, p, now) IN
        /\ Call
        /\ Apply(m)
        /\ op' = Op("setPriority", p, -1, FALSE, m.ret)

SetSourceAutoSelectEnabled ==
    \E enable \in BOOLEAN, update \in BOOLEAN :
        LET m == setSourceAutoSelectEnabled(Self, enable, update, now) IN
        /\ Call
        /\ Apply(m)
        /\ op' = OpUpdate("setSourceAutoSelectEnabled", -1, -1, enable, update, m.ret)

\* _updateTimer elapses: the periodic sweep
UpdateTimerTimeout ==
    /\ updateTimerActive
    /\ Apply(setCurrentTime(Self, now))
    /\ op' = Op("setCurrentTime", -1, -1, FALSE, TRUE)
    /\ UNCHANGED calls

\* the single-shot timers after d more milliseconds: _blockTimer just stops,
\* _timer calls timeTrigger (a _blockTimer due at the same instant was started
\* earlier and has stopped by then)
TimersAfter(m, d) ==
    LET b == IF m.block > d THEN m.block - d ELSE 0
        m1 == [m EXCEPT !.block = b]
    IN IF m.timer = 0 THEN m1
       ELSE IF m.timer > d THEN [m1 EXCEPT !.timer = m.timer - d]
       ELSE timeTrigger([m1 EXCEPT !.timer = 0])

\* one update period of time passes, within the first n periods
TickWithin(n) ==
    /\ now < StartTime + n * UpdateInterval
    /\ now' = now + UpdateInterval
    /\ ApplyWiped(TimersAfter(Self, UpdateInterval), {})
    /\ op' = Op("tick", -1, -1, FALSE, TRUE)
    /\ UNCHANGED calls

\* one update period of time passes
Tick == TickWithin(MaxTicks)

Next ==
    \/ RegisterInput
    \/ SetInput
    \/ SetInputImage
    \/ SetInputInactive
    \/ ClearInput
    \/ ClearAll
    \/ SetPriority
    \/ SetSourceAutoSelectEnabled
    \/ UpdateTimerTimeout
    \/ Tick

Spec == Init /\ [][Next]_vars

\* the update periods the clock advances where the time trigger is followed:
\* two block intervals and one period more
TriggerTicks == 2 * (BlockInterval \div UpdateInterval) + 1

\* a relative timeout that outlasts TriggerTicks update periods
LongTimeout == (TriggerTicks + 1) * UpdateInterval

\* a producer registers a colour source
RegisterColor ==
    \E p \in Priorities :
        LET m == registerInput(Self, p, "COMP_COLOR") IN
        /\ Call
        /\ Apply(m)
        /\ op' = Op("registerInput", p, -1, FALSE, TRUE)

\* a producer feeds a colour with a long timeout
SetInputLong ==
    \E p \in Priorities :
        LET m == setInput(Self, p, LongTimeout, now) IN
        /\ Call
        /\ Apply(m)
        /\ op' = Op("setInput", p, LongTimeout, FALSE, m.ret)

\* one update period of time passes, up to TriggerTicks periods
TriggerTick == TickWithin(TriggerTicks)

\* producers register and feed long-lived colours, the update timer sweeps,
\* time passes
TriggerNext ==
    \/ RegisterColor
    \/ SetInputLong
    \/ UpdateTimerTimeout
    \/ TriggerTick

\* the step TriggerTick takes, told by its guard and by the clock alone: no
\* other action advances now
TimePasses ==
    /\ now < StartTime + TriggerTicks * UpdateInterval
    /\ now' = now + UpdateInterval

\* the clock runs and the single-shot timers elapse: while the model's clock
\* can advance, it does
TriggerSpec == Init /\ [][TriggerNext]_vars /\ WF_now(TimePasses)

\* PriorityMuxer::setEnable
SetEnable ==
    \E enable \in BOOLEAN :
        /\ Call
        /\ updateTimerActive' = enable
        /\ events' = <<>>
        /\ views' = <<>>
        /\ op' = Op("setEnable", -1, -1, enable, TRUE)
        /\ UNCHANGED <<activeInputs, currentPriority, manualSelectedPriority,
                       sourceAutoSelectEnabled, blockTimer, timer, now, runnerTimes,
                       activeHistory>>

\* the step UpdateTimerTimeout takes, told by its guard and by op alone: no
\* other action leaves op as a sweep
UpdateTimerElapses ==
    /\ updateTimerActive
    /\ op' = Op("setCurrentTime", -1, -1, FALSE, TRUE)

\* the producers feed inputs with deadlines, the owner stops and restarts the
\* update timer, time passes
SweepNext ==
    \/ RegisterInput
    \/ SetInput
    \/ SetEnable
    \/ UpdateTimerTimeout
    \/ Tick

\* Qt's event loop serves an active periodic timer: while _updateTimer is
\* active and the last step was not a sweep, a sweep follows
SweepSpec == Init /\ [][SweepNext]_vars /\ WF_op(UpdateTimerElapses)

\* ------------------------------------------------------------ claims
\* the records that take part in selection: timeoutTime_ms above -100
ActiveSet == {p \in DOMAIN activeInputs : activeInputs[p].timeoutTime_ms > INACTIVE}

\* the Selector of the design: priority 0 when active, else the pinned priority
\* in manual mode when active, else the smallest active priority or LOWEST
Selector ==
    IF 0 \in ActiveSet THEN 0
    ELSE IF sourceAutoSelectEnabled \/ manualSelectedPriority \notin ActiveSet
         THEN Min(ActiveSet \cup {LOWEST_PRIORITY})
         ELSE manualSelectedPriority

\* whether the signal sequence ev holds the signal sig(p, v)
Emitted(ev, sig, p, v) == \E i \in 1..Len(ev) : ev[i] = Ev(sig, p, v)

\* C1: after every public operation and every sweep, currentPriority is the
\* Selector's output for the current table and mode.
C1_CurrentIsSelector == currentPriority = Selector

\* C2: the key LOWEST (255) is present in the table in every reachable state.
C2_LowestPresent == LOWEST_PRIORITY \in DOMAIN activeInputs

\* C3: whenever priority 0 is present and not inactive, the visible priority
\* a sweep publishes is 0, in auto-select mode and in manual mode alike.
C3_ZeroWins ==
    (op.name = "setCurrentTime" /\ 0 \in ActiveSet) => currentPriority = 0

\* C4: a registered but inactive record takes no part in selection: registering
\* an absent priority p < 255 leaves the visible priority as it was, and no
\* sweep makes an inactive p visible.
C4_InactiveIgnored ==
    [][\A p \in Priorities \ {LOWEST_PRIORITY} :
         /\ (op'.name = "registerInput" /\ op'.prio = p /\ p \notin DOMAIN activeInputs)
               => currentPriority' = currentPriority
         /\ (/\ op'.name = "setCurrentTime"
             /\ p \in DOMAIN activeInputs
             /\ activeInputs[p].timeoutTime_ms = INACTIVE
             /\ currentPriority # p)
               => currentPriority' # p]_vars

\* C5: setPriority(p) returns true exactly for a present p, and then p is
\* pinned, auto-select is off and the visible priority is already p (or an
\* active priority 0 that overrides it).
C5_SetPrioritySynchronous ==
    [][op'.name = "setPriority" =>
         /\ op'.ret = (op'.prio \in DOMAIN activeInputs)
         /\ op'.ret =>
              /\ manualSelectedPriority' = op'.prio
              /\ sourceAutoSelectEnabled' = FALSE
              /\ \/ currentPriority' = op'.prio
                 \/ (0 \in ActiveSet' /\ currentPriority' = 0)]_vars

\* C6: from every reachable state with p present, setPriority(p);
\* setSourceAutoSelectEnabled(true); setPriority(p) ends with the same visible
\* priority as the single call setPriority(p).
C6_ReselectSameAsSingle ==
    \A p \in DOMAIN activeInputs :
        LET single == setPriority(Self, p, now)
            again == setPriority(setSourceAutoSelectEnabled(single, TRUE, TRUE, now), p, now)
        IN again.cur = single.cur

\* the value the listener saw before the i-th signal of ev, which is an
\* activeStateChanged for p
SeenBefore(h, ev, p, i) ==
    LET em == ActiveEmissions(SubSeq(ev, 1, i - 1), p) IN
    IF em = <<>> THEN h[p].last
    ELSE IF em[Len(em)].val THEN "active" ELSE "inactive"

\* C7 as stated: per priority, over any sequence of operations and sweeps
\* (removal and a new register included), no two consecutive
\* activeStateChanged emissions carry the same value.
C7_AlwaysAlternates ==
    [][\A i \in 1..Len(events') :
         events'[i].sig = "activeStateChanged" =>
            SeenBefore(activeHistory, events', events'[i].prio, i)
               # (IF events'[i].val THEN "active" ELSE "inactive")]_vars

\* C7 amended: per priority, for as long as its record stays in the table (no
\* clear, expiry or clearAll removed or replaced it since the last emission),
\* no two consecutive activeStateChanged emissions carry the same value.
C7_AlternatesWhilePresent ==
    [][\A i \in 1..Len(events') :
         (/\ events'[i].sig = "activeStateChanged"
          /\ ~activeHistory[events'[i].prio].removed) =>
            SeenBefore(activeHistory, events', events'[i].prio, i)
               # (IF events'[i].val THEN "active" ELSE "inactive")]_vars

\* a second emission for a record that stayed in the table has happened
C7_Witness ==
    \E p \in Priorities :
        /\ op.name \in {"setInput", "setInputImage", "setInputInactive"}
        /\ op.prio = p
        /\ Emitted(events, "activeStateChanged", p, FALSE)
        /\ activeHistory[p].last = "inactive"
        /\ p \in DOMAIN activeInputs /\ p # LOWEST_PRIORITY

\* C8: every removal of a record (clearInput, expiry in a sweep, clearAll soft
\* or forced) emits priorityChanged(p, false) for that p.
C8_RemovalEmits ==
    [][\A p \in (DOMAIN activeInputs) \ (DOMAIN activeInputs') :
         Emitted(events', "priorityChanged", p, FALSE)]_vars

\* the values a listener of visiblePriorityChanged holds during a step that
\* starts with the visible priority c and emits ev
Published(c, ev) ==
    <<c>> \o [i \in 1..Len(SelectSeq(ev, LAMBDA e : e.sig = "visiblePriorityChanged"))
                |-> SelectSeq(ev, LAMBDA e : e.sig = "visiblePriorityChanged")[i].prio]

\* C9: whenever currentPriority changes, by any operation or sweep,
\* visiblePriorityChanged(new) is emitted with the new value, and it is
\* emitted only when the value changed.
C9_VisibleChangeEmitted ==
    [][LET pub == Published(currentPriority, events') IN
         /\ pub[Len(pub)] = currentPriority'
         /\ \A i \in 1..(Len(pub) - 1) : pub[i] # pub[i + 1]]_vars

\* C10 as stated: a record below LOWEST fed with timeout_ms = 0 is removed by
\* the next sweep, so after a sweep no such record is left.
C10_ZeroExpires ==
    op.name = "setCurrentTime" =>
        \A p \in (DOMAIN activeInputs) \ {LOWEST_PRIORITY} :
            activeInputs[p].timeoutTime_ms # 0

\* C10 amended: setInput / setInputImage with timeout_ms = 0 store the timeout
\* 0, and no sweep removes such a record or emits priorityChanged(p, false)
\* for it: only positive deadlines expire.
C10_ZeroNeverExpires ==
    [][\A p \in Priorities :
         /\ (/\ op'.name \in {"setInput", "setInputImage"}
             /\ op'.prio = p /\ op'.timeout = 0 /\ op'.ret)
               => (p \in DOMAIN activeInputs' /\ activeInputs'[p].timeoutTime_ms = 0)
         /\ (/\ op'.name = "setCurrentTime"
             /\ p \in DOMAIN activeInputs
             /\ activeInputs[p].timeoutTime_ms = 0)
               => /\ p \in DOMAIN activeInputs'
                  /\ activeInputs'[p].timeoutTime_ms = 0
                  /\ ~Emitted(events', "priorityChanged", p, FALSE)]_vars

\* a sweep has run, after time has passed, over a record fed with timeout 0
C10_Witness ==
    /\ op.name = "setCurrentTime"
    /\ now > StartTime
    /\ \E p \in (DOMAIN activeInputs) \ {LOWEST_PRIORITY} :
          activeInputs[p].timeoutTime_ms = 0

\* the record of p holds a positive deadline that has passed at clock value t
Expired(inputs, p, t) ==
    /\ p \in DOMAIN inputs
    /\ inputs[p].timeoutTime_ms > 0
    /\ inputs[p].timeoutTime_ms <= t

\* whether the signal sequence ev holds priorityChanged(p, false) directly
\* followed by prioritiesChanged
RemovalAnnounced(ev, p) ==
    \E i \in 1..(Len(ev) - 1) :
        /\ ev[i] = Ev("priorityChanged", p, FALSE)
        /\ ev[i + 1] = EvPrioritiesChanged

\* C11: right after a sweep no record with 0 < timeoutTime_ms <= now is left,
\* every record the sweep removed produced priorityChanged(p, false) followed
\* by prioritiesChanged, and while the update timer runs every record whose
\* positive deadline has passed is eventually removed.
C11_ExpiredSwept ==
    /\ [][op'.name = "setCurrentTime" =>
            \A p \in Priorities :
               /\ ~Expired(activeInputs', p, now')
               /\ (p \in DOMAIN activeInputs /\ p \notin DOMAIN activeInputs')
                     => (/\ Expired(activeInputs, p, now)
                         /\ RemovalAnnounced(events', p))]_vars
    /\ \A p \in Priorities :
          (Expired(activeInputs, p, now) /\ updateTimerActive)
             ~> (~Expired(activeInputs, p, now) \/ ~updateTimerActive)

\* a sweep has just removed a record whose deadline had passed
C11_Witness ==
    /\ op.name = "setCurrentTime"
    /\ now > StartTime
    /\ \E p \in Priorities :
          /\ p \notin DOMAIN activeInputs
          /\ RemovalAnnounced(events, p)

\* the calls that can return false
FailingCalls ==
    {"setInput", "setInputImage", "setInputInactive", "clearInput", "setPriority",
     "setSourceAutoSelectEnabled"}

\* whether the call op, made in the current state, is one of the failing cases
FailureCase(o) ==
    \/ /\ o.name \in {"setInput", "setInputImage", "setInputInactive"}
       /\ o.prio \notin DOMAIN activeInputs
    \/ /\ o.name = "clearInput"
       /\ (o.prio = LOWEST_PRIORITY \/ o.prio \notin DOMAIN activeInputs)
    \/ /\ o.name = "setPriority"
       /\ o.prio \notin DOMAIN activeInputs
    \/ /\ o.name = "setSourceAutoSelectEnabled"
       /\ \/ o.flag = sourceAutoSelectEnabled
          \/ (~o.flag /\ manualSelectedPriority \notin DOMAIN activeInputs)

\* C12: a call fails exactly in the listed cases (unregistered priority for
\* setInput / setInputImage / setInputInactive, LOWEST or absent for clearInput,
\* absent for setPriority, no pin or no change for setSourceAutoSelectEnabled);
\* a failed call returns false, leaves the table, the visible priority, the
\* pin and the mode as they were and emits no signal.
C12_FailedCallNoEffect ==
    [][op'.name \in FailingCalls =>
         /\ FailureCase(op') <=> ~op'.ret
         /\ ~op'.ret =>
              /\ activeInputs' = activeInputs
              /\ currentPriority' = currentPriority
              /\ manualSelectedPriority' = manualSelectedPriority
              /\ sourceAutoSelectEnabled' = sourceAutoSelectEnabled
              /\ events' = <<>>]_vars

\* setPriority has failed on a table that holds more than LOWEST
C12_Witness ==
    /\ op.name = "setPriority"
    /\ ~op.ret
    /\ op.prio \notin DOMAIN activeInputs
    /\ Cardinality(DOMAIN activeInputs) > 1
    /\ ~sourceAutoSelectEnabled

\* the records a soft clearAll is to remove: Color or Effect below 254
SoftCleared(inputs) ==
    {p \in DOMAIN inputs :
        inputs[p].componentId \in {"COMP_COLOR", "COMP_EFFECT"} /\ p < LOWEST_PRIORITY - 1}

\* C13: clearAll(false) removes exactly the Color and Effect records below
\* 254, every other record is still present with the same content, and the
\* visible priority afterwards is the Selector's output over the survivors.
C13_SoftClearExact ==
    [][(op'.name = "clearAll" /\ ~op'.flag) =>
         /\ DOMAIN activeInputs' = (DOMAIN activeInputs) \ SoftCleared(activeInputs)
         /\ \A p \in (DOMAIN activeInputs) \ SoftCleared(activeInputs) :
               p \in DOMAIN activeInputs' => activeInputs'[p] = activeInputs[p]
         /\ currentPriority' = Selector']_vars

\* the Selector of the design over the members v a slot finds
SelectorOf(v) ==
    LET A == {p \in DOMAIN v.inputs : v.inputs[p].timeoutTime_ms > INACTIVE} IN
    IF 0 \in A THEN 0
    ELSE IF v.auto \/ v.man \notin A THEN Min(A \cup {LOWEST_PRIORITY})
         ELSE v.man

\* C14: the members are fully updated before any signal is emitted: a slot
\* that runs inside an emit finds currentPriority equal to the Selector's
\* output for the table and mode of that instant, and never finds
\* currentPriority naming a record that is no longer in the table.
C14_StateUpdatedBeforeEmit ==
    [][\A i \in 1..Len(views') :
         /\ views'[i].cur = SelectorOf(views'[i])
         /\ views'[i].cur \in DOMAIN views'[i].inputs]_vars

\* C15 as stated: within one call or one sweep, when the visible record is
\* removed (by clearInput or by expiry), no visiblePriorityChanged is emitted
\* before the priorityChanged(p, false) of that removal.
C15_VisibleNeverBeforeRemoval ==
    [][\A i, j \in 1..Len(events') :
         (/\ events'[i].sig = "visiblePriorityChanged"
          /\ events'[j] = Ev("priorityChanged", currentPriority, FALSE)
          /\ currentPriority \notin DOMAIN activeInputs') => j < i]_vars

\* C15 amended: in a sweep every priorityChanged(p, false) of an expiry is
\* emitted before the sweep's visiblePriorityChanged; clearInput(p) re-evaluates
\* first, so its priorityChanged(p, false) and prioritiesChanged are the last
\* two signals of the call, after any visiblePriorityChanged.
C15_ExpiryBeforeVisibleClearAfter ==
    [][/\ op'.name = "setCurrentTime" =>
            \A i, j \in 1..Len(events') :
               (/\ events'[i].sig = "visiblePriorityChanged"
                /\ events'[j].sig = "priorityChanged") => j < i
       /\ (op'.name = "clearInput" /\ op'.ret) =>
            /\ Len(events') >= 2
            /\ events'[Len(events') - 1] = Ev("priorityChanged", op'.prio, FALSE)
            /\ events'[Len(events')] = EvPrioritiesChanged
            /\ \A i \in 1..(Len(events') - 2) :
                  events'[i] # Ev("priorityChanged", op'.prio, FALSE)]_vars

\* clearInput has removed the visible record and the visible priority changed
C15_Witness ==
    /\ op.name = "clearInput"
    /\ op.ret
    /\ currentPriority # op.prio
    /\ Emitted(events, "visiblePriorityChanged", currentPriority, FALSE)
    /\ Emitted(events, "priorityChanged", op.prio, FALSE)

\* the signals of one kind of change; prioritiesChanged is their union
IntrinsicSignals ==
    {"priorityChanged", "activeStateChanged", "visiblePriorityChanged", "autoSelectChanged"}

\* C16: within one call or sweep every priorityChanged, activeStateChanged,
\* visiblePriorityChanged and autoSelectChanged is followed by a
\* prioritiesChanged before the call returns, and a setPriority that changes
\* the visible priority emits autoSelectChanged(false) before
\* visiblePriorityChanged.
C16_UnionFollowsIntrinsic ==
    [][/\ \A i \in 1..Len(events') :
            events'[i].sig \in IntrinsicSignals =>
               \E j \in (i + 1)..Len(events') : events'[j] = EvPrioritiesChanged
       /\ op'.name = "setPriority" =>
            \A i, j \in 1..Len(events') :
               (/\ events'[i] = Ev("autoSelectChanged", -1, FALSE)
                /\ events'[j].sig = "visiblePriorityChanged") => i < j]_vars

\* C17: a sweep in manual mode that finds the pinned priority gone from the
\* table turns auto-select on, emits autoSelectChanged(true) and publishes the
\* smallest active priority (or LOWEST); so after every sweep manual mode
\* implies that the pinned priority is present.
C17_PinLostFallsBack ==
    [][op'.name = "setCurrentTime" =>
         /\ (~sourceAutoSelectEnabled /\ manualSelectedPriority \notin DOMAIN activeInputs') =>
               /\ sourceAutoSelectEnabled'
               /\ Emitted(events', "autoSelectChanged", -1, TRUE)
               /\ currentPriority' = Min(ActiveSet' \cup {LOWEST_PRIORITY})
         /\ ~sourceAutoSelectEnabled' =>
               manualSelectedPriority' \in DOMAIN activeInputs']_vars

\* registerInput(p, c) directly followed by clearInput(p), at clock value t
RegisterThenClear(m, p, c, t) == clearInput(registerInput(m, p, c), p, t)

\* the table without the records whose positive deadline has passed at t
Unexpired(inputs, t) ==
    [q \in {x \in DOMAIN inputs : ~Expired(inputs, x, t)} |-> inputs[q]]

\* registerInput(p, c) on a present priority p keeps the timeout, replaces the
\* component, leaves every other record and member alone and emits nothing
ReRegisterKeeps(m, p, c) ==
    LET m1 == registerInput(m, p, c) IN
    /\ DOMAIN m1.inputs = DOMAIN m.inputs
    /\ m1.inputs[p] = [m.inputs[p] EXCEPT !.componentId = c]
    /\ \A q \in (DOMAIN m.inputs) \ {p} : m1.inputs[q] = m.inputs[q]
    /\ m1.cur = m.cur /\ m1.man = m.man /\ m1.auto = m.auto
    /\ m1.ev = <<>>

\* C18 as stated: from every state, for an absent p < LOWEST, registerInput(p)
\* followed by clearInput(p) leaves the table with exactly the keys and
\* records it had; and registerInput on a present p preserves timeoutTime_ms
\* and emits no signal.
C18_RegisterClearRestores ==
    /\ \A p \in Priorities \ {LOWEST_PRIORITY}, c \in Components :
          p \notin DOMAIN activeInputs =>
             RegisterThenClear(Self, p, c, now).inputs = activeInputs
    /\ \A p \in DOMAIN activeInputs, c \in Components : ReRegisterKeeps(Self, p, c)

\* C18 amended: registerInput(p) followed by clearInput(p) leaves the table as
\* it was except for the records whose positive deadline has passed, which
\* the sweep inside clearInput removes; and registerInput on a present p
\* preserves timeoutTime_ms and emits no signal.
C18_RegisterClearRestoresUnexpired ==
    /\ \A p \in Priorities \ {LOWEST_PRIORITY}, c \in Components :
          p \notin DOMAIN activeInputs =>
             RegisterThenClear(Self, p, c, now).inputs = Unexpired(activeInputs, now)
    /\ \A p \in DOMAIN activeInputs, c \in Components : ReRegisterKeeps(Self, p, c)

\* registerInput has been called again for a fed record, whose deadline has
\* passed, and register and clear of an absent priority sweep that record away
C18_Witness ==
    /\ op.name = "registerInput"
    /\ events = <<>>
    /\ Expired(activeInputs, op.prio, now)
    /\ \E p \in Priorities \ {LOWEST_PRIORITY} :
          /\ p \notin DOMAIN activeInputs
          /\ op.prio \notin DOMAIN RegisterThenClear(Self, p, "COMP_COLOR", now).inputs

\* the positions of the timeRunner emissions in the signal sequence ev
RunnerEmissions(ev) == {i \in 1..Len(ev) : ev[i].sig = "timeRunner"}

\* C19: timeRunner is never emitted while _blockTimer is active; so two
\* consecutive timeRunner emissions are at least 1000 ms apart, and of three
\* consecutive emissions the first and the third are more than 1000 ms apart
\* (at most two in any 1000 ms window), however often the trigger is asked.
C19_RateLimit ==
    [][/\ \A i \in RunnerEmissions(events') : views'[i].block = 0
       /\ Cardinality(RunnerEmissions(events')) <= 1
       /\ (RunnerEmissions(events') # {} /\ Len(runnerTimes) >= 1) =>
             now' - runnerTimes[Len(runnerTimes)] >= BlockInterval
       /\ (RunnerEmissions(events') # {} /\ Len(runnerTimes) = 2) =>
             now' - runnerTimes[1] > BlockInterval]_vars

\* under requests in every sweep, timeRunner has been emitted a third time,
\* one block interval after the second
C19_Witness ==
    /\ RunnerEmissions(events) # {}
    /\ Len(runnerTimes) = 2
    /\ runnerTimes[1] > StartTime
    /\ runnerTimes[2] = now
    /\ runnerTimes[2] - runnerTimes[1] = BlockInterval

\* the last step held a trigger request that found _blockTimer active
BlockedRequest ==
    \E i \in 1..Len(events) :
        events[i].sig = "signalTimeTrigger" /\ views[i].block > 0

\* the clock values from which a block interval and a deferral still fit into
\* the time the clock of TriggerSpec covers
RequestTimes ==
    {StartTime + k * UpdateInterval :
        k \in 0..(TriggerTicks - (BlockInterval + TimerInterval) \div UpdateInterval)}

\* C20: a trigger request made while _blockTimer is active is not lost: as
\* time passes and the timers elapse, timeRunner is emitted after the request,
\* also when no further request is made.
C20_DeferredTriggerFires ==
    \A t \in RequestTimes :
        (BlockedRequest /\ now = t)
           ~> (runnerTimes # <<>> /\ runnerTimes[Len(runnerTimes)] > t)

\* the deferred timer has elapsed with _blockTimer stopped and has emitted
\* timeRunner, one block interval after the emission before
C20_Witness ==
    /\ op.name = "tick"
    /\ RunnerEmissions(events) # {}
    /\ timer = 0
    /\ Len(runnerTimes) = 2
    /\ runnerTimes[2] = now

====
